---- MODULE Spec2Model ----
(***************************************************************************)
(* Job pipeline of product-snap: create_job (routers/jobs.py), the rate    *)
(* and concurrency ledger (services/rate_limit_service.py), the worker     *)
(* loop, process_job and the stale-job reaper (worker.py).                 *)
(*                                                                         *)
(* Atomic steps are the places where a process touches a shared store      *)
(* (one Redis command, one database commit); everything a coroutine does   *)
(* between two awaits without touching a store belongs to the step before. *)
(***************************************************************************)
EXTENDS Integers, Sequences, FiniteSets, TLC

\* ------------------------------------------------------------------ bounds
MaxJobs == 2        \* create_job requests served in a pipeline run
MaxTicks == 2       \* clock ticks in a pipeline run
MaxImages == 2      \* images one generation call returns at most

\* ------------------------------------------------------- program constants
FREE_JOBS_PER_DAY == 5
FREE_CONCURRENT_JOBS == 1
PERSONAL_JOBS_PER_MONTH == 100
PERSONAL_CONCURRENT_JOBS == 3
PRO_JOBS_PER_MONTH == 500
PRO_CONCURRENT_JOBS == 5
STALE_MINUTES == 15
USAGE_TTL == 2592000
MAX_WAIT_SECONDS == 300
MOCK_MIN_SECONDS == 20
MOCK_MAX_SECONDS == 30

Users == {"u1", "u2"}
Workers == {"w1", "w2"}      \* worker processes; each runs worker_loop and check_stale_jobs

None == {}
Some(x) == {x}
The(o) == CHOOSE x \in o : TRUE

SubscriptionPlan == {"FREE", "BASIC_MONTHLY", "BASIC_YEARLY", "PRO_MONTHLY", "PRO_YEARLY"}
SubscriptionStatus == {"ACTIVE", "CANCELLED", "EXPIRED", "PENDING"}
JobStatus == {"PENDING", "QUEUED", "PROCESSING", "COMPLETED", "FAILED", "CANCELLED"}

VARIABLES
    now,        \* datetime.utcnow(), in minutes
    sub,        \* subscriptions table: user -> None or Some([plan, status])
    job,        \* jobs table: job id -> row
    nextId,     \* the next fresh job id (uuid4 never repeats)
    queue,      \* the Redis list "job_queue"
    store,      \* the Redis string keys: key -> [val, ttl]
    reply,      \* the HTTP reply to the last create_job request
    pc,         \* worker -> position in worker_loop / process_job
    held,       \* worker -> the job_id it popped
    wuser,      \* worker -> user.id loaded by process_job
    rpc,        \* worker process -> position of its check_stale_jobs task
    stale_jobs, \* worker process -> the rows its last query returned
    todo,       \* worker process -> the rows of stale_jobs its for loop has yet to take
    client,     \* what the generation backend and the asset storage answer to a run
    before,     \* the user's concurrency counter before the first job was pushed
    req,        \* API task -> the create_job request it is serving
    poll,       \* None, or what a call of poll_until_complete came to
    shutdown_flag   \* worker process -> its global shutdown_flag

vars ==
    <<now, sub, job, nextId, queue, store, reply, pc, held, wuser, rpc, stale_jobs, todo,
      client, before, req, poll, shutdown_flag>>

\* ------------------------------------------------------------- Redis store
UsageTotalKey(u) == <<"usage_total", u>>
UsageMonthKey(u) == <<"usage", u, "Y-m">>
ConcurrentKey(u) == <<"concurrent", u>>

GET(s, k) == IF k \in DOMAIN s THEN Some(s[k].val) ELSE None
\* int(x) if x else 0: the reply is a string, and "0" is truthy
IntOrZero(o) == IF o = None THEN 0 ELSE The(o)
Put(s, k, v) == [x \in DOMAIN s \cup {k} |-> IF x = k THEN v ELSE s[x]]
INCRBY(s, k, d) ==
    IF k \in DOMAIN s THEN [s EXCEPT ![k].val = @ + d]
    ELSE Put(s, k, [val |-> d, ttl |-> None])
INCR(s, k) == INCRBY(s, k, 1)
DECR(s, k) == INCRBY(s, k, 0 - 1)
SET(s, k, v) == Put(s, k, [val |-> v, ttl |-> None])
EXPIRE(s, k, t) == IF k \in DOMAIN s THEN [s EXCEPT ![k].ttl = Some(t)] ELSE s

\* a push at the head of the list instead of the tail
LPUSH(q, x) == <<x>> \o q

\* a push that is lost
RPUSHLost(q, x) == q

\* the list job_queue
RPUSH(q, x) == Append(q, x)
\* a read of the head that leaves it in the list (LINDEX 0)
LPEEK(q) ==
    IF q = <<>> THEN [value |-> None, rest |-> q]
    ELSE [value |-> Some(Head(q)), rest |-> q]

LPOP(q) ==
    IF q = <<>> THEN [value |-> None, rest |-> q]
    ELSE [value |-> Some(Head(q)), rest |-> Tail(q)]

\* ------------------------------------------------------- RateLimitService
get_plan_limits(plan) ==
    IF plan = "FREE"
    THEN [jobs_total |-> FREE_JOBS_PER_DAY, concurrent_jobs |-> FREE_CONCURRENT_JOBS, period |-> "total"]
    ELSE IF plan \in {"BASIC_MONTHLY", "BASIC_YEARLY"}
    THEN [jobs_per_month |-> PERSONAL_JOBS_PER_MONTH, concurrent_jobs |-> PERSONAL_CONCURRENT_JOBS, period |-> "month"]
    ELSE IF plan \in {"PRO_MONTHLY", "PRO_YEARLY"}
    THEN [jobs_per_month |-> PRO_JOBS_PER_MONTH, concurrent_jobs |-> PRO_CONCURRENT_JOBS, period |-> "month"]
    ELSE [jobs_total |-> FREE_JOBS_PER_DAY, concurrent_jobs |-> FREE_CONCURRENT_JOBS, period |-> "total"]

PeriodKey(u, plan) == IF plan = "FREE" THEN UsageTotalKey(u) ELSE UsageMonthKey(u)

\* the plan's max-jobs as check_job_limit reads it: limits["jobs_total"] for FREE,
\* limits.get("jobs_per_month", 0) otherwise
MaxJobsOf(plan) ==
    LET limits == get_plan_limits(plan)
    IN  IF plan = "FREE" THEN limits.jobs_total
        ELSE IF "jobs_per_month" \in DOMAIN limits THEN limits.jobs_per_month ELSE 0

\* the reason strings: f"Usage limit exceeded ({max_jobs} jobs {period_text})" and
\* f"Concurrent job limit exceeded ({n} jobs)", kept as their parts
UsageReason(max_jobs, limits) ==
    <<"Usage limit exceeded", max_jobs, IF limits.period = "total" THEN "total" ELSE "per month">>
ConcurrentReason(limits) == <<"Concurrent job limit exceeded", limits.concurrent_jobs>>
NoReason == <<>>

\* check_job_limit looking at the concurrency counter first
check_job_limit_concurrent_first(s, u, plan) ==
    LET limits == get_plan_limits(plan)
        max_jobs == MaxJobsOf(plan)
        current_usage == IntOrZero(GET(s, PeriodKey(u, plan)))
        concurrent_jobs == IntOrZero(GET(s, ConcurrentKey(u)))
    IN  IF concurrent_jobs >= limits.concurrent_jobs
        THEN [allowed |-> FALSE, reason |-> ConcurrentReason(limits)]
        ELSE IF current_usage >= max_jobs
        THEN [allowed |-> FALSE, reason |-> UsageReason(max_jobs, limits)]
        ELSE [allowed |-> TRUE, reason |-> NoReason]

\* check_job_limit comparing the usage counter with > instead of >=
check_job_limit_usage_gt(s, u, plan) ==
    LET limits == get_plan_limits(plan)
        max_jobs == MaxJobsOf(plan)
        current_usage == IntOrZero(GET(s, PeriodKey(u, plan)))
        concurrent_jobs == IntOrZero(GET(s, ConcurrentKey(u)))
    IN  IF current_usage > max_jobs
        THEN [allowed |-> FALSE, reason |-> UsageReason(max_jobs, limits)]
        ELSE IF concurrent_jobs >= limits.concurrent_jobs
        THEN [allowed |-> FALSE, reason |-> ConcurrentReason(limits)]
        ELSE [allowed |-> TRUE, reason |-> NoReason]

\* check_job_limit comparing the concurrency counter with > instead of >=
check_job_limit_concurrent_gt(s, u, plan) ==
    LET limits == get_plan_limits(plan)
        max_jobs == MaxJobsOf(plan)
        current_usage == IntOrZero(GET(s, PeriodKey(u, plan)))
        concurrent_jobs == IntOrZero(GET(s, ConcurrentKey(u)))
    IN  IF current_usage >= max_jobs
        THEN [allowed |-> FALSE, reason |-> UsageReason(max_jobs, limits)]
        ELSE IF concurrent_jobs > limits.concurrent_jobs
        THEN [allowed |-> FALSE, reason |-> ConcurrentReason(limits)]
        ELSE [allowed |-> TRUE, reason |-> NoReason]

check_job_limit(s, u, plan) ==
    LET limits == get_plan_limits(plan)
        max_jobs == MaxJobsOf(plan)
        current_usage == IntOrZero(GET(s, PeriodKey(u, plan)))
        concurrent_jobs == IntOrZero(GET(s, ConcurrentKey(u)))
    IN  IF current_usage >= max_jobs
        THEN [allowed |-> FALSE, reason |-> UsageReason(max_jobs, limits)]
        ELSE IF concurrent_jobs >= limits.concurrent_jobs
        THEN [allowed |-> FALSE, reason |-> ConcurrentReason(limits)]
        ELSE [allowed |-> TRUE, reason |-> NoReason]

\* increment_usage writing the month's key whatever the plan
increment_usage_month_key(s, u, plan) ==
    EXPIRE(INCR(s, UsageMonthKey(u)), UsageMonthKey(u), USAGE_TTL)

\* a check that takes the concurrency slot it finds free
check_job_limit_reserving(s, u, plan) == INCR(s, ConcurrentKey(u))

\* the store after the commands check_job_limit issues: GET period_key and, when the
\* usage check passes, GET concurrent_key; neither writes
check_job_limit_store(s, u, plan) == s

increment_usage(s, u, plan) ==
    IF plan = "FREE"
    THEN INCR(s, UsageTotalKey(u))
    ELSE EXPIRE(INCR(s, UsageMonthKey(u)), UsageMonthKey(u), USAGE_TTL)

\* ------------------------------------------------------------------- jobs
NewJob(u) ==
    [user |-> u, status |-> "QUEUED", started_at |-> None, completed_at |-> None,
     result_urls |-> <<>>, thumbnail_url |-> None, error_message |-> None,
     progress |-> 0, nano_banana_job_id |-> None]

AddRow(t, id, row) == [x \in DOMAIN t \cup {id} |-> IF x = id THEN row ELSE t[x]]

\* the plan of the subscription row, whatever its status
plan_of_row(s) == s.plan

effective_plan(s) == IF s.status # "ACTIVE" THEN "FREE" ELSE s.plan

Reply(u, code, detail, id) == [user |-> u, code |-> code, detail |-> detail, job_id |-> id]
NoReply == Reply("", 0, <<>>, None)

\* a create_job that counts the request before it checks the limit
create_job_counting_first(u, cap) ==
    /\ nextId <= cap
    /\ IF sub[u] = None
       THEN /\ reply' = Reply(u, 403, <<"No active subscription">>, None)
            /\ UNCHANGED <<job, nextId, store, queue>>
       ELSE LET plan == effective_plan(The(sub[u]))
                counted == increment_usage(store, u, plan)
                res == check_job_limit(counted, u, plan)
            IN  IF ~res.allowed
                THEN /\ reply' = Reply(u, 429, res.reason, None)
                     /\ store' = counted
                     /\ UNCHANGED <<job, nextId, queue>>
                ELSE /\ job' = AddRow(job, nextId, NewJob(u))
                     /\ nextId' = nextId + 1
                     /\ store' = counted
                     /\ queue' = RPUSH(queue, nextId)
                     /\ reply' = Reply(u, 200, NoReason, Some(nextId))
    /\ UNCHANGED <<now, sub, pc, held, wuser, rpc, stale_jobs, todo, client, before, req, poll, shutdown_flag>>

\* POST /jobs/create for an upload that passes validation (lines 153-218);
\* cap bounds the job rows of a run
create_job(u, cap) ==
    /\ nextId <= cap
    /\ IF sub[u] = None
       THEN /\ reply' = Reply(u, 403, <<"No active subscription">>, None)
            /\ UNCHANGED <<job, nextId, store, queue>>
       ELSE LET plan == effective_plan(The(sub[u]))
                res == check_job_limit(store, u, plan)
            IN  IF ~res.allowed
                THEN /\ reply' = Reply(u, 429, res.reason, None)
                     /\ store' = check_job_limit_store(store, u, plan)
                     /\ UNCHANGED <<job, nextId, queue>>
                ELSE /\ job' = AddRow(job, nextId, NewJob(u))
                     /\ nextId' = nextId + 1
                     /\ store' = increment_usage(check_job_limit_store(store, u, plan), u, plan)
                     /\ queue' = RPUSH(queue, nextId)
                     /\ reply' = Reply(u, 200, NoReason, Some(nextId))
    /\ UNCHANGED <<now, sub, pc, held, wuser, rpc, stale_jobs, todo, client, before, req, poll, shutdown_flag>>

\* DELETE /jobs/{job_id} that also gives the usage back
delete_job_refunding(u, id) ==
    /\ IF id \in DOMAIN job /\ job[id].user = u
       THEN /\ job' = [x \in DOMAIN job \ {id} |-> job[x]]
            /\ store' = INCRBY(store, UsageTotalKey(u), 0 - 1)
       ELSE UNCHANGED <<job, store>>
    /\ UNCHANGED <<now, sub, nextId, queue, reply, pc, held, wuser, rpc, stale_jobs, todo,
                 client, before, req, poll, shutdown_flag>>

\* DELETE /jobs/{job_id}: 404 when the user has no such job, else the row is deleted
\* (the assets in storage are not modelled); no Redis command
delete_job(u, id) ==
    /\ IF id \in DOMAIN job /\ job[id].user = u
       THEN job' = [x \in DOMAIN job \ {id} |-> job[x]]
       ELSE job' = job
    /\ UNCHANGED <<now, sub, nextId, queue, store, reply, pc, held, wuser, rpc, stale_jobs, todo,
                 client, before, req, poll, shutdown_flag>>

\* DELETE /delete-account: the user row is deleted and, by cascade, the user's
\* subscription and jobs; no Redis command. The users table is DOMAIN sub: sub[u] is
\* the user's subscription row, None when there is none.
delete_account(u) ==
    /\ u \in DOMAIN sub
    /\ sub' = [v \in DOMAIN sub \ {u} |-> sub[v]]
    /\ job' = [x \in {i \in DOMAIN job : job[i].user # u} |-> job[x]]
    /\ UNCHANGED <<now, nextId, queue, store, reply, pc, held, wuser, rpc, stale_jobs, todo,
                 client, before, req, poll, shutdown_flag>>

\* ---------------------------------------------------------------- worker
\* a loop that pops whatever shutdown_flag says (while True)
worker_loop_lpop_always(w) ==
    /\ pc[w] = "loop"
    /\ LET r == LPOP(queue)
       IN  /\ queue' = r.rest
           /\ held' = [held EXCEPT ![w] = r.value]
           /\ pc' = [pc EXCEPT ![w] = IF r.value = None THEN "sleep" ELSE "process_job"]
    /\ UNCHANGED <<now, sub, job, nextId, store, reply, wuser, rpc, stale_jobs, todo, client,
                 before, req, poll, shutdown_flag>>

\* worker_loop: while not shutdown_flag: job_id = await redis.lpop("job_queue")
worker_loop_lpop(w) ==
    /\ pc[w] = "loop"
    /\ ~shutdown_flag[w]
    /\ LET r == LPOP(queue)
       IN  /\ queue' = r.rest
           /\ held' = [held EXCEPT ![w] = r.value]
           /\ pc' = [pc EXCEPT ![w] = IF r.value = None THEN "sleep" ELSE "process_job"]
    /\ UNCHANGED <<now, sub, job, nextId, store, reply, wuser, rpc, stale_jobs, todo, client,
                 before, req, poll, shutdown_flag>>

\* worker_loop: await asyncio.sleep(1) is over
worker_loop_wake(w) ==
    /\ pc[w] = "sleep"
    /\ pc' = [pc EXCEPT ![w] = "loop"]
    /\ UNCHANGED <<now, sub, job, nextId, queue, store, reply, held, wuser, rpc, stale_jobs,
                 todo, client, before, req, poll, shutdown_flag>>

\* a process_job that leaves alone a job that some run has already started
process_job_start_once(w) ==
    /\ pc[w] = "process_job"
    /\ LET id == The(held[w])
       IN  IF id \notin DOMAIN job \/ job[id].user \notin Users \/ job[id].started_at # None
           THEN /\ pc' = [pc EXCEPT ![w] = "loop"]
                /\ held' = [held EXCEPT ![w] = None]
                /\ UNCHANGED <<job, wuser>>
           ELSE /\ job' = [job EXCEPT ![id].status = "PROCESSING", ![id].started_at = Some(now)]
                /\ wuser' = [wuser EXCEPT ![w] = Some(job[id].user)]
                /\ pc' = [pc EXCEPT ![w] = "increment_concurrent"]
                /\ held' = held
    /\ UNCHANGED <<now, sub, nextId, queue, store, reply, rpc, stale_jobs, todo, client,
                 before, req, poll, shutdown_flag>>

\* process_job: load the job and its user, mark PROCESSING, commit
process_job_start(w) ==
    /\ pc[w] = "process_job"
    /\ LET id == The(held[w])
       IN  IF id \notin DOMAIN job
           THEN /\ pc' = [pc EXCEPT ![w] = "loop"]
                /\ held' = [held EXCEPT ![w] = None]
                /\ UNCHANGED <<job, wuser>>
           ELSE IF job[id].user \notin Users
           THEN /\ pc' = [pc EXCEPT ![w] = "loop"]
                /\ held' = [held EXCEPT ![w] = None]
                /\ UNCHANGED <<job, wuser>>
           ELSE /\ job' = [job EXCEPT ![id].status = "PROCESSING", ![id].started_at = Some(now)]
                /\ wuser' = [wuser EXCEPT ![w] = Some(job[id].user)]
                /\ pc' = [pc EXCEPT ![w] = "increment_concurrent"]
                /\ held' = held
    /\ UNCHANGED <<now, sub, nextId, queue, store, reply, rpc, stale_jobs, todo, client,
                 before, req, poll, shutdown_flag>>

\* process_job, statement by statement on the database: a row that is missing when
\* the job is looked up is pushed back on the queue
process_job_query_job_requeueing(w) ==
    /\ pc[w] = "process_job"
    /\ LET id == The(held[w])
       IN  IF id \notin DOMAIN job
           THEN /\ pc' = [pc EXCEPT ![w] = "loop"]
                /\ held' = [held EXCEPT ![w] = None]
                /\ queue' = RPUSH(queue, id)
                /\ wuser' = wuser
           ELSE /\ pc' = [pc EXCEPT ![w] = "query_user"]
                /\ wuser' = [wuser EXCEPT ![w] = Some(job[id].user)]
                /\ UNCHANGED <<held, queue>>
    /\ UNCHANGED <<now, sub, job, nextId, store, reply, rpc, stale_jobs, todo, client,
                 before, req, poll, shutdown_flag>>

\* process_job: job = db.query(Job).filter(Job.id == job_id).first(); the session
\* keeps the loaded row, job.user_id with it
process_job_query_job(w) ==
    /\ pc[w] = "process_job"
    /\ LET id == The(held[w])
       IN  IF id \notin DOMAIN job
           THEN /\ pc' = [pc EXCEPT ![w] = "loop"]
                /\ held' = [held EXCEPT ![w] = None]
                /\ wuser' = wuser
           ELSE /\ pc' = [pc EXCEPT ![w] = "query_user"]
                /\ wuser' = [wuser EXCEPT ![w] = Some(job[id].user)]
                /\ held' = held
    /\ UNCHANGED <<now, sub, job, nextId, queue, store, reply, rpc, stale_jobs, todo, client,
                 before, req, poll, shutdown_flag>>

\* process_job: user = db.query(User).filter(User.id == job.user_id).first()
process_job_query_user(w) ==
    /\ pc[w] = "query_user"
    /\ IF The(wuser[w]) \notin DOMAIN sub
       THEN /\ pc' = [pc EXCEPT ![w] = "loop"]
            /\ held' = [held EXCEPT ![w] = None]
            /\ wuser' = [wuser EXCEPT ![w] = None]
       ELSE /\ pc' = [pc EXCEPT ![w] = "commit_processing"]
            /\ UNCHANGED <<held, wuser>>
    /\ UNCHANGED <<now, sub, job, nextId, queue, store, reply, rpc, stale_jobs, todo, client,
                 before, req, poll, shutdown_flag>>

\* process_job: status PROCESSING, started_at, db.commit(); the UPDATE of a row
\* deleted meanwhile raises, the except clause at line 205 logs it and process_job
\* returns
process_job_commit(w) ==
    /\ pc[w] = "commit_processing"
    /\ LET id == The(held[w])
       IN  IF id \notin DOMAIN job
           THEN /\ pc' = [pc EXCEPT ![w] = "loop"]
                /\ held' = [held EXCEPT ![w] = None]
                /\ wuser' = [wuser EXCEPT ![w] = None]
                /\ job' = job
           ELSE /\ job' = [job EXCEPT ![id].status = "PROCESSING", ![id].started_at = Some(now)]
                /\ pc' = [pc EXCEPT ![w] = "increment_concurrent"]
                /\ UNCHANGED <<held, wuser>>
    /\ UNCHANGED <<now, sub, nextId, queue, store, reply, rpc, stale_jobs, todo, client,
                 before, req, poll, shutdown_flag>>

\* process_job: await rate_limiter.increment_concurrent(user.id)
increment_concurrent(w) ==
    /\ pc[w] = "increment_concurrent"
    /\ store' = INCR(store, ConcurrentKey(The(wuser[w])))
    /\ pc' = [pc EXCEPT ![w] = "try"]
    /\ UNCHANGED <<now, sub, job, nextId, queue, reply, held, wuser, rpc, stale_jobs, todo,
                 client, before, req, poll, shutdown_flag>>

\* ------------------------------------------- process_job: the try block
\* nano_banana_client.create_job declares these parameters (besides self) ...
CreateJobParams ==
    {"input_image_url", "mode", "custom_prompt", "shadow_option", "model_gender", "scene_environment"}
\* ... and process_job calls it with these keywords
ProcessJobKeywords ==
    {"input_image_url", "mode", "custom_prompt", "shadow_option", "subject_gender", "scene_environment"}
\* a callee that takes any keyword (**kwargs)
CallBindsAnyKeyword(keywords, params) == TRUE

\* Python binds a call's keywords to the parameters before the body runs; a keyword
\* that is no parameter raises TypeError at the call
CallBinds(keywords, params) == keywords \subseteq params
TypeErrorText == "create_job() got an unexpected keyword argument"

\* what the generation backend and the asset storage can answer in one run of the
\* try block: the client's mode, whether the call raises, the images it returns
\* ("ok": decodes and uploads, "bad": raises on decode or upload), and what the
\* thumbnail step does
ImageLists == UNION {[1..n -> {"ok", "bad"}] : n \in 0..MaxImages}
Outcomes ==
    [mode : {"mock", "live"}, raises : BOOLEAN, images : ImageLists,
     polled : {"ok", "bad"}, thumb : {"stored", "no_bytes", "raises"}]

\* generated_images as the loop at lines 124-140 sees them: the response's images, or
\* the polling fallback's when there are none (mock: create_job returns none and
\* get_job_status one image; live: poll_until_complete returns no "generated_images")
generated_images(o) ==
    IF o.mode = "mock" THEN <<o.polled>>
    ELSE o.images

\* how long a call of poll_until_complete can sleep: the mock client draws
\* random.uniform(20, 30), the live client does not sleep
PollWaits(o) == IF o.mode = "mock" THEN {MOCK_MIN_SECONDS, MOCK_MAX_SECONDS} ELSE {0}

\* poll_until_complete(job_id, max_wait_seconds) after waited seconds: the mock
\* client returns get_job_status (one image), the live client a dict without
\* "generated_images"; max_wait_seconds is not read and no path raises
poll_until_complete(o, max_wait_seconds, waited) ==
    IF o.mode = "mock"
    THEN [kind |-> "return", waited |-> waited,
          value |-> [job_id |-> "nb", status |-> "completed",
                     generated_images |-> <<o.polled>>, completed_at |-> "now"]]
    ELSE [kind |-> "return", waited |-> waited,
          value |-> [job_id |-> "nb", status |-> "completed"]]

Indices(imgs) == {i \in 1..Len(imgs) : imgs[i] = "ok"}
RECURSIVE StoreImages(_, _)
\* result_urls: the locator of every image that decoded and uploaded, in order; a
\* locator is named after the image's index
StoreImages(imgs, i) ==
    IF i > Len(imgs) THEN <<>>
    ELSE IF imgs[i] = "ok" THEN <<i>> \o StoreImages(imgs, i + 1)
    ELSE StoreImages(imgs, i + 1)

\* an except handler that logs and leaves the row as it is
FailedUnrecorded(row, text, t) == row

\* lines 181-186: the except handler's writes
Failed(row, text, t) ==
    [row EXCEPT !.status = "FAILED", !.error_message = Some(text), !.completed_at = Some(t)]

Completed(row, urls, thumb, t) ==
    [row EXCEPT !.status = "COMPLETED", !.result_urls = urls, !.completed_at = Some(t),
                !.progress = 100,
                !.thumbnail_url = IF thumb THEN Some("thumb") ELSE @]

\* lines 77-186: the row the try block and its except handler leave behind
TryBlock(row, o, t) ==
    IF ~CallBinds(ProcessJobKeywords, CreateJobParams)
    THEN Failed(row, TypeErrorText, t)
    ELSE IF o.mode = "live" /\ o.raises
    THEN Failed(row, "generation failed", t)
    ELSE LET started == [row EXCEPT !.nano_banana_job_id = Some("nb")]
             result_urls == StoreImages(generated_images(o), 1)
         IN  IF result_urls # <<>> /\ o.thumb = "raises"
             THEN Failed(started, "thumbnail failed", t)
             ELSE Completed(started, result_urls, result_urls # <<>> /\ o.thumb = "stored", t)

\* process_job: the try block up to the commit of COMPLETED or FAILED
process_job_try(w) ==
    /\ pc[w] = "try"
    /\ LET id == The(held[w])
       IN  IF id \in DOMAIN job
           THEN job' = [job EXCEPT ![id] = TryBlock(@, client, now)]
           \* the row was deleted meanwhile: the commit raises out of the except
           \* handler and nothing is written
           ELSE job' = job
    /\ pc' = [pc EXCEPT ![w] = "finally"]
    /\ UNCHANGED <<now, sub, nextId, queue, store, reply, held, wuser, rpc, stale_jobs, todo,
                 client, before, req, poll, shutdown_flag>>

\* decrement_concurrent without the reset of a negative count
ClampNothing(s, key) == s

\* process_job, finally: await rate_limiter.decrement_concurrent(user.id)
\* if count < 0: await self.redis.set(concurrent_key, 0)
Clamp(s, key) == SET(s, key, 0)

\* a finally block that leaves the counter as it is
decrement_concurrent_skipped(s, u) == s

\* decrement_concurrent, both commands in one step
decrement_concurrent_store(s, u) ==
    LET key == ConcurrentKey(u)
        s1 == DECR(s, key)
        count == s1[key].val
    IN  IF count < 0 THEN Clamp(s1, key) ELSE s1

decrement_concurrent(w) ==
    /\ pc[w] = "finally"
    /\ store' = decrement_concurrent_store(store, The(wuser[w]))
    /\ pc' = [pc EXCEPT ![w] = "loop"]
    /\ held' = [held EXCEPT ![w] = None]
    /\ wuser' = [wuser EXCEPT ![w] = None]
    /\ UNCHANGED <<now, sub, job, nextId, queue, reply, rpc, stale_jobs, todo, client, before, req, poll, shutdown_flag>>

\* ---------------------------------------------------------------- reaper
\* the query with started_at <= threshold instead of <
StaleJobsInclusive(t) ==
    {id \in DOMAIN job :
        /\ job[id].status = "PROCESSING"
        /\ job[id].started_at # None
        /\ The(job[id].started_at) <= t - STALE_MINUTES}

\* the query of check_stale_jobs at time t
StaleJobs(t) ==
    {id \in DOMAIN job :
        /\ job[id].status = "PROCESSING"
        /\ job[id].started_at # None
        /\ The(job[id].started_at) < t - STALE_MINUTES}

\* check_stale_jobs: the sleep is over and the query runs
check_stale_jobs_query(r) ==
    /\ rpc[r] = "sleep"
    /\ ~shutdown_flag[r]
    /\ StaleJobs(now) # {}
    /\ stale_jobs' = [stale_jobs EXCEPT ![r] = StaleJobs(now)]
    /\ todo' = [todo EXCEPT ![r] = StaleJobs(now)]
    /\ rpc' = [rpc EXCEPT ![r] = "requeue"]
    /\ UNCHANGED <<now, sub, job, nextId, queue, store, reply, pc, held, wuser, client,
                 before, req, poll, shutdown_flag>>

\* a sweep that pushes the id and leaves the status
RequeuedStatusKept(row) == row

\* job.status = JobStatus.QUEUED
Requeued(row) == [row EXCEPT !.status = "QUEUED"]

\* a sweep that also gives the owner's concurrency slot back
check_stale_jobs_requeue_releasing(r) ==
    /\ rpc[r] = "requeue"
    /\ \E id \in todo[r] :
           IF id \in DOMAIN job
           THEN /\ job' = [job EXCEPT ![id] = [@ EXCEPT !.status = "QUEUED"]]
                /\ queue' = RPUSH(queue, id)
                /\ store' = DECR(store, ConcurrentKey(job[id].user))
                /\ todo' = [todo EXCEPT ![r] = @ \ {id}]
                /\ rpc' = [rpc EXCEPT ![r] = IF todo[r] = {id} THEN "sleep" ELSE "requeue"]
           ELSE /\ UNCHANGED <<job, queue, store>>
                /\ todo' = [todo EXCEPT ![r] = {}]
                /\ rpc' = [rpc EXCEPT ![r] = "sleep"]
    /\ UNCHANGED <<now, sub, nextId, reply, pc, held, wuser, stale_jobs, client,
                 before, req, poll, shutdown_flag>>

\* check_stale_jobs: one turn of the for loop (all() gives the rows in no stated
\* order): the status is committed and the id pushed
check_stale_jobs_requeue(r) ==
    /\ rpc[r] = "requeue"
    /\ \E id \in todo[r] :
           IF id \in DOMAIN job
           THEN /\ job' = [job EXCEPT ![id] = Requeued(@)]
                /\ queue' = RPUSH(queue, id)
                /\ todo' = [todo EXCEPT ![r] = @ \ {id}]
                /\ rpc' = [rpc EXCEPT ![r] = IF todo[r] = {id} THEN "sleep" ELSE "requeue"]
           \* the row was deleted meanwhile: the commit raises, the except clause of
           \* the sweep logs it and the rest of the sweep is skipped
           ELSE /\ UNCHANGED <<job, queue>>
                /\ todo' = [todo EXCEPT ![r] = {}]
                /\ rpc' = [rpc EXCEPT ![r] = "sleep"]
    /\ UNCHANGED <<now, sub, nextId, store, reply, pc, held, wuser, stale_jobs, client,
                 before, req, poll, shutdown_flag>>

\* ----------------------------------------------------------------- clock
Tick ==
    /\ now < MaxTicks * STALE_MINUTES
    /\ now' = now + STALE_MINUTES
    /\ UNCHANGED <<sub, job, nextId, queue, store, reply, pc, held, wuser, rpc, stale_jobs,
                 todo, client, before, req, poll, shutdown_flag>>

\* ------------------------------------------------------- the pipeline
\* the subscriptions of a pipeline run: u1 is on the free plan, u2 has no
\* subscription row
PipelineSubs ==
    [u \in Users |->
        IF u = "u1" THEN Some([plan |-> "FREE", status |-> "ACTIVE"]) ELSE None]

EmptyTable == [x \in {} |-> 0]

\* the backend of a pipeline run: IMAGE_GENERATION_MODE "live", answering without
\* an image
PipelineClient ==
    [mode |-> "live", raises |-> FALSE, images |-> <<>>, polled |-> "ok", thumb |-> "stored"]

Handlers == {"h1", "h2"}
\* approved: how many requests served by the task check_job_limit has allowed
IdleRequest == [pc |-> "idle", user |-> "", plan |-> "FREE", id |-> None, approved |-> 0]

Init ==
    /\ client = PipelineClient
    /\ before = 0
    /\ req = [h \in Handlers |-> IdleRequest]
    /\ poll = None
    /\ shutdown_flag = [w \in Workers |-> FALSE]
    /\ now = 0
    /\ sub = PipelineSubs
    /\ job = EmptyTable
    /\ nextId = 1
    /\ queue = <<>>
    /\ store = EmptyTable
    /\ reply = NoReply
    /\ pc = [w \in Workers |-> "loop"]
    /\ held = [w \in Workers |-> None]
    /\ wuser = [w \in Workers |-> None]
    /\ rpc = [w \in Workers |-> "sleep"]
    /\ stale_jobs = [w \in Workers |-> {}]
    /\ todo = [w \in Workers |-> {}]

Next ==
    \/ \E u \in Users : create_job(u, MaxJobs)
    \/ \E w \in Workers : worker_loop_lpop(w)
    \/ \E w \in Workers : worker_loop_wake(w)
    \/ \E w \in Workers : process_job_start(w)
    \/ \E w \in Workers : increment_concurrent(w)
    \/ \E w \in Workers : process_job_try(w)
    \/ \E w \in Workers : decrement_concurrent(w)
    \/ \E r \in Workers : check_stale_jobs_query(r)
    \/ \E r \in Workers : check_stale_jobs_requeue(r)
    \/ Tick

Spec == Init /\ [][Next]_vars

\* the statements of worker w's worker_loop coroutine
WorkerStep(w) ==
    \/ worker_loop_lpop(w)
    \/ worker_loop_wake(w)
    \/ process_job_start(w)
    \/ increment_concurrent(w)
    \/ process_job_try(w)
    \/ decrement_concurrent(w)

\* one worker process alone on the queue: w2 was never started
InitLive ==
    /\ client = PipelineClient
    /\ before = 0
    /\ req = [h \in Handlers |-> IdleRequest]
    /\ poll = None
    /\ shutdown_flag = [w \in Workers |-> FALSE]
    /\ now = 0
    /\ sub = PipelineSubs
    /\ job = EmptyTable
    /\ nextId = 1
    /\ queue = <<>>
    /\ store = EmptyTable
    /\ reply = NoReply
    /\ pc = [w \in Workers |-> IF w = "w1" THEN "loop" ELSE "stopped"]
    /\ held = [w \in Workers |-> None]
    /\ wuser = [w \in Workers |-> None]
    /\ rpc = [w \in Workers |-> IF w = "w1" THEN "sleep" ELSE "stopped"]
    /\ stale_jobs = [w \in Workers |-> {}]
    /\ todo = [w \in Workers |-> {}]

\* the pipeline with a live worker: the event loop of the worker process keeps
\* running its worker_loop (every await returns, every generation call returns or
\* raises); requests, sweeps and the clock come as they may
SpecLive == InitLive /\ [][Next]_vars /\ \A w \in Workers : WF_vars(WorkerStep(w))


\* ------------------------------------------- create_job on a fresh store
MaxCreate == 6      \* job rows in a run of create_job requests

AllSubs == {None} \cup {Some(x) : x \in [plan : SubscriptionPlan, status : SubscriptionStatus]}

InitIdle ==
    /\ now = 0
    /\ job = EmptyTable
    /\ nextId = 1
    /\ queue = <<>>
    /\ reply = NoReply
    /\ pc = [w \in Workers |-> "loop"]
    /\ held = [w \in Workers |-> None]
    /\ wuser = [w \in Workers |-> None]
    /\ rpc = [w \in Workers |-> "sleep"]
    /\ stale_jobs = [w \in Workers |-> {}]
    /\ todo = [w \in Workers |-> {}]

InitCreate ==
    /\ InitIdle
    /\ client = PipelineClient
    /\ before = 0
    /\ req = [h \in Handlers |-> IdleRequest]
    /\ poll = None
    /\ shutdown_flag = [w \in Workers |-> FALSE]
    /\ sub \in [Users -> AllSubs]
    /\ store = EmptyTable

NextCreate == \E u \in Users : create_job(u, MaxCreate)

\* sequential create_job requests, no worker running
SpecCreate == InitCreate /\ [][NextCreate]_vars

\* ------------------------------- check_job_limit on the counters it can meet
MaxOver == 2        \* how far above a plan's max-jobs a drawn usage counter lies
MaxConc == 6        \* the largest concurrency counter drawn

UsageProbes ==
    {0} \cup {l + d : l \in {FREE_JOBS_PER_DAY, PERSONAL_JOBS_PER_MONTH, PRO_JOBS_PER_MONTH},
                      d \in (0 - 1)..MaxOver}

\* a store holding the three ledger keys of u1, each absent or at a drawn value
Counter(k, o) == IF o = None THEN EmptyTable ELSE (k :> [val |-> The(o), ttl |-> None])
Opt(S) == {None} \cup {Some(x) : x \in S}

InitLimit ==
    /\ InitIdle
    /\ client = PipelineClient
    /\ before = 0
    /\ req = [h \in Handlers |-> IdleRequest]
    /\ poll = None
    /\ shutdown_flag = [w \in Workers |-> FALSE]
    /\ sub \in {s \in [Users -> AllSubs] : s["u2"] = None}
    /\ \E t \in Opt(UsageProbes), m \in Opt(UsageProbes), c \in Opt((0 - 1)..MaxConc) :
           store = Counter(UsageTotalKey("u1"), t) @@ Counter(UsageMonthKey("u1"), m)
                       @@ Counter(ConcurrentKey("u1"), c)

NextLimit == \E u \in Users : create_job(u, MaxJobs)

SpecLimit == InitLimit /\ [][NextLimit]_vars

\* --------------------------- increment_concurrent / decrement_concurrent calls
\* a caller issues INCR
ledger_increment(w, u) ==
    /\ pc[w] = "loop"
    /\ IntOrZero(GET(store, ConcurrentKey(u))) < MaxConc
    /\ store' = INCR(store, ConcurrentKey(u))
    /\ UNCHANGED <<now, sub, job, nextId, queue, reply, pc, held, wuser, rpc, stale_jobs,
                 todo, client, before, req, poll, shutdown_flag>>

\* a caller issues the DECR of decrement_concurrent and reads the count
ledger_decrement(w, u) ==
    /\ pc[w] = "loop"
    /\ store' = DECR(store, ConcurrentKey(u))
    /\ IF store'[ConcurrentKey(u)].val < 0
       THEN /\ pc' = [pc EXCEPT ![w] = "clamp"]
            /\ wuser' = [wuser EXCEPT ![w] = Some(u)]
       ELSE UNCHANGED <<pc, wuser>>
    /\ UNCHANGED <<now, sub, job, nextId, queue, reply, held, rpc, stale_jobs, todo, client,
                 before, req, poll, shutdown_flag>>

\* the caller that read a negative count issues SET key 0
ledger_clamp(w) ==
    /\ pc[w] = "clamp"
    /\ store' = Clamp(store, ConcurrentKey(The(wuser[w])))
    /\ pc' = [pc EXCEPT ![w] = "loop"]
    /\ wuser' = [wuser EXCEPT ![w] = None]
    /\ UNCHANGED <<now, sub, job, nextId, queue, reply, held, rpc, stale_jobs, todo, client,
                 before, req, poll, shutdown_flag>>

InitLedger ==
    /\ InitIdle
    /\ client = PipelineClient
    /\ before = 0
    /\ req = [h \in Handlers |-> IdleRequest]
    /\ poll = None
    /\ shutdown_flag = [w \in Workers |-> FALSE]
    /\ sub = [u \in Users |-> None]
    /\ store = EmptyTable

NextLedger ==
    \/ \E w \in Workers, u \in Users : ledger_increment(w, u)
    \/ \E w \in Workers, u \in Users : ledger_decrement(w, u)
    \/ \E w \in Workers : ledger_clamp(w)

SpecLedger == InitLedger /\ [][NextLedger]_vars

\* ------------------------------------------------ process_job, run by run
MaxRun == 2         \* jobs queued for the workers
MaxBefore == 2      \* the largest concurrency counter the runs start from

\* jobs 1..n of u1, created and pushed in order
QueuedRows(n) == [id \in 1..n |-> NewJob("u1")]
RECURSIVE QueuedIds(_)
QueuedIds(n) == IF n = 0 THEN <<>> ELSE RPUSH(QueuedIds(n - 1), n)

InitRun ==
    /\ now = 0
    /\ sub = PipelineSubs
    /\ \E n \in 1..MaxRun :
           /\ job = QueuedRows(n)
           /\ queue = QueuedIds(n)
           /\ nextId = n + 1
    /\ \E c \in Opt(0..MaxBefore) :
           /\ store = Counter(ConcurrentKey("u1"), c)
           /\ before = IntOrZero(c)
    /\ client \in Outcomes
    /\ reply = NoReply
    /\ pc = [w \in Workers |-> "loop"]
    /\ held = [w \in Workers |-> None]
    /\ wuser = [w \in Workers |-> None]
    /\ rpc = [w \in Workers |-> "sleep"]
    /\ stale_jobs = [w \in Workers |-> {}]
    /\ todo = [w \in Workers |-> {}]
    /\ req = [h \in Handlers |-> IdleRequest]
    /\ poll = None
    /\ shutdown_flag = [w \in Workers |-> FALSE]

NextRun ==
    \/ \E w \in Workers : worker_loop_lpop(w)
    \/ \E w \in Workers : worker_loop_wake(w)
    \/ \E w \in Workers : process_job_start(w)
    \/ \E w \in Workers : increment_concurrent(w)
    \/ \E w \in Workers : process_job_try(w)
    \/ \E w \in Workers : decrement_concurrent(w)

\* workers taking queued jobs through process_job, whatever the backend answers
SpecRun == InitRun /\ [][NextRun]_vars

\* ------------------------------------------------ one worker_loop, run after run
InitLoop ==
    /\ now = 0
    /\ sub = PipelineSubs
    /\ \E n \in 1..MaxRun :
           /\ job = QueuedRows(n)
           /\ queue = QueuedIds(n)
           /\ nextId = n + 1
    /\ store = EmptyTable
    /\ before = 0
    /\ client \in Outcomes
    /\ reply = NoReply
    /\ pc = [w \in Workers |-> IF w = "w1" THEN "loop" ELSE "stopped"]
    /\ held = [w \in Workers |-> None]
    /\ wuser = [w \in Workers |-> None]
    /\ rpc = [w \in Workers |-> "stopped"]
    /\ stale_jobs = [w \in Workers |-> {}]
    /\ todo = [w \in Workers |-> {}]
    /\ req = [h \in Handlers |-> IdleRequest]
    /\ poll = None
    /\ shutdown_flag = [w \in Workers |-> FALSE]

\* one worker process whose event loop keeps running its worker_loop coroutine:
\* while not shutdown_flag, every await returns and the next statement runs
SpecLoop == InitLoop /\ [][NextRun]_vars /\ WF_vars(NextRun)

\* ------------------------------------------- create_job, await by await
MaxRequests == 2    \* requests check_job_limit allows in a run

RECURSIVE ApprovedBy(_)
\* the requests check_job_limit has allowed, over the API tasks in H
ApprovedBy(H) ==
    IF H = {} THEN 0
    ELSE LET h == CHOOSE x \in H : TRUE IN req[h].approved + ApprovedBy(H \ {h})

ReqFrame == <<now, sub, pc, held, wuser, rpc, stale_jobs, todo, client, before, poll, shutdown_flag>>

\* lines 153-165: the subscription lookup and the effective plan
request_begin(h, u) ==
    /\ req[h].pc = "idle"
    /\ ApprovedBy(Handlers) < MaxRequests
    /\ IF sub[u] = None
       THEN /\ reply' = Reply(u, 403, <<"No active subscription">>, None)
            /\ req' = req
       ELSE /\ req' = [req EXCEPT ![h].pc = "check", ![h].user = u, ![h].id = None,
                                  ![h].plan = effective_plan(The(sub[u]))]
            /\ reply' = reply
    /\ UNCHANGED <<job, nextId, queue, store>>
    /\ UNCHANGED ReqFrame

\* lines 167-174: await rate_limiter.check_job_limit(...)
request_check(h) ==
    /\ req[h].pc = "check"
    /\ LET res == check_job_limit(store, req[h].user, req[h].plan)
       IN  /\ store' = check_job_limit_store(store, req[h].user, req[h].plan)
           /\ IF ~res.allowed
              THEN /\ reply' = Reply(req[h].user, 429, res.reason, None)
                   /\ req' = [req EXCEPT ![h].pc = "idle"]
              ELSE /\ req' = [req EXCEPT ![h].pc = "upload", ![h].approved = @ + 1]
                   /\ reply' = reply
    /\ UNCHANGED <<job, nextId, queue>>
    /\ UNCHANGED ReqFrame

\* lines 176-181: storage_service.upload_bytes(...) returns
request_upload(h) ==
    /\ req[h].pc = "upload"
    /\ req' = [req EXCEPT ![h].pc = "commit"]
    /\ UNCHANGED <<job, nextId, queue, store, reply>>
    /\ UNCHANGED ReqFrame

\* lines 198-210: the Job row is added and committed
request_commit(h) ==
    /\ req[h].pc = "commit"
    /\ job' = AddRow(job, nextId, NewJob(req[h].user))
    /\ nextId' = nextId + 1
    /\ req' = [req EXCEPT ![h].pc = "increment_usage", ![h].id = Some(nextId)]
    /\ UNCHANGED <<queue, store, reply>>
    /\ UNCHANGED ReqFrame

\* line 213: await rate_limiter.increment_usage(...)
request_increment_usage(h) ==
    /\ req[h].pc = "increment_usage"
    /\ store' = increment_usage(store, req[h].user, req[h].plan)
    /\ req' = [req EXCEPT ![h].pc = "rpush"]
    /\ UNCHANGED <<job, nextId, queue, reply>>
    /\ UNCHANGED ReqFrame

\* lines 216-218: await redis_client.rpush("job_queue", job.id), and the reply
request_rpush(h) ==
    /\ req[h].pc = "rpush"
    /\ queue' = RPUSH(queue, The(req[h].id))
    /\ reply' = Reply(req[h].user, 200, NoReason, req[h].id)
    /\ req' = [req EXCEPT ![h].pc = "idle"]
    /\ UNCHANGED <<job, nextId, store>>
    /\ UNCHANGED ReqFrame

\* the call the request is at (storage, database or Redis) raises: no handler
\* catches it, the request ends with 500 and what is committed stays
request_raises(h) ==
    /\ req[h].pc \in {"upload", "commit", "increment_usage", "rpush"}
    /\ reply' = Reply(req[h].user, 500, <<"Internal Server Error">>, None)
    /\ req' = [req EXCEPT ![h].pc = "idle"]
    /\ UNCHANGED <<job, nextId, queue, store>>
    /\ UNCHANGED ReqFrame

InitRequest ==
    /\ InitIdle
    /\ sub = PipelineSubs
    /\ \E c \in Opt(0..FREE_CONCURRENT_JOBS) : store = Counter(ConcurrentKey("u1"), c)
    /\ client = PipelineClient
    /\ before = 0
    /\ req = [h \in Handlers |-> IdleRequest]
    /\ poll = None
    /\ shutdown_flag = [w \in Workers |-> FALSE]

NextRequest ==
    \/ \E h \in Handlers, u \in Users : request_begin(h, u)
    \/ \E h \in Handlers : request_check(h)
    \/ \E h \in Handlers : request_upload(h)
    \/ \E h \in Handlers : request_commit(h)
    \/ \E h \in Handlers : request_increment_usage(h)
    \/ \E h \in Handlers : request_rpush(h)
    \/ \E h \in Handlers : request_raises(h)

\* create_job requests served by concurrent API tasks
SpecRequest == InitRequest /\ [][NextRequest]_vars

\* ------------------------- concurrent create_job requests close to the usage limit
\* a job of u that a worker took and that ended in the except handler at time 0
FailedRow(u) ==
    Failed([NewJob(u) EXCEPT !.status = "PROCESSING", !.started_at = Some(0)], TypeErrorText, 0)

\* the free-plan user has had n jobs accepted and processed, n one or two below the
\* plan's max-jobs; nothing is queued or running
InitRace ==
    /\ now = 0
    /\ sub = PipelineSubs
    /\ \E n \in (FREE_JOBS_PER_DAY - MaxRequests)..(FREE_JOBS_PER_DAY - 1) :
           /\ job = [id \in 1..n |-> FailedRow("u1")]
           /\ nextId = n + 1
           /\ store = Counter(UsageTotalKey("u1"), Some(n)) @@ Counter(ConcurrentKey("u1"), Some(0))
    /\ queue = <<>>
    /\ reply = NoReply
    /\ pc = [w \in Workers |-> "loop"]
    /\ held = [w \in Workers |-> None]
    /\ wuser = [w \in Workers |-> None]
    /\ rpc = [w \in Workers |-> "sleep"]
    /\ stale_jobs = [w \in Workers |-> {}]
    /\ todo = [w \in Workers |-> {}]
    /\ client = PipelineClient
    /\ before = 0
    /\ req = [h \in Handlers |-> IdleRequest]
    /\ poll = None
    /\ shutdown_flag = [w \in Workers |-> FALSE]

SpecRace == InitRace /\ [][NextRequest]_vars

\* --------------------------------- the pipeline of one worker, with deletions
InitUsage ==
    /\ now = 0
    /\ sub = PipelineSubs
    /\ job = EmptyTable
    /\ nextId = 1
    /\ queue = <<>>
    /\ \E t \in Opt((FREE_JOBS_PER_DAY - 1)..FREE_JOBS_PER_DAY) :
           store = Counter(UsageTotalKey("u1"), t)
    /\ reply = NoReply
    /\ pc = [w \in Workers |-> IF w = "w1" THEN "loop" ELSE "stopped"]
    /\ held = [w \in Workers |-> None]
    /\ wuser = [w \in Workers |-> None]
    /\ rpc = [w \in Workers |-> IF w = "w1" THEN "sleep" ELSE "stopped"]
    /\ stale_jobs = [w \in Workers |-> {}]
    /\ todo = [w \in Workers |-> {}]
    /\ client = PipelineClient
    /\ before = 0
    /\ req = [h \in Handlers |-> IdleRequest]
    /\ poll = None
    /\ shutdown_flag = [w \in Workers |-> FALSE]

NextUsage ==
    \/ Next
    \/ \E u \in Users, id \in 1..MaxJobs : delete_job(u, id)

\* requests, deletions, one worker process and its sweeps, from a usage counter
\* that is absent, one below the free limit or at it
SpecUsage == InitUsage /\ [][NextUsage]_vars

\* ------------------------------------- workers, sweeps and a process that dies
\* the worker process is killed while process_job is between increment_concurrent
\* and decrement_concurrent: neither the except handler nor the finally block runs,
\* and its check_stale_jobs task (asyncio.gather in main) ends with it
worker_dies(w) ==
    /\ pc[w] \in {"try", "finally"}
    /\ pc' = [pc EXCEPT ![w] = "dead"]
    /\ rpc' = [rpc EXCEPT ![w] = "dead"]
    /\ UNCHANGED <<now, sub, job, nextId, queue, store, reply, held, wuser, stale_jobs, todo,
                 client, before, req, poll, shutdown_flag>>

InitCrash ==
    /\ now = 0
    /\ sub = PipelineSubs
    /\ \E n \in 1..MaxRun :
           /\ job = QueuedRows(n)
           /\ queue = QueuedIds(n)
           /\ nextId = n + 1
    /\ store = EmptyTable
    /\ before = 0
    /\ client = PipelineClient
    /\ reply = NoReply
    /\ pc = [w \in Workers |-> "loop"]
    /\ held = [w \in Workers |-> None]
    /\ wuser = [w \in Workers |-> None]
    /\ rpc = [w \in Workers |-> "sleep"]
    /\ stale_jobs = [w \in Workers |-> {}]
    /\ todo = [w \in Workers |-> {}]
    /\ req = [h \in Handlers |-> IdleRequest]
    /\ poll = None
    /\ shutdown_flag = [w \in Workers |-> FALSE]

NextSweep ==
    \/ NextRun
    \/ \E r \in Workers : check_stale_jobs_query(r)
    \/ \E r \in Workers : check_stale_jobs_requeue(r)
    \/ Tick

\* queued jobs, the workers and their sweeps while the clock runs
SpecSweep == InitCrash /\ [][NextSweep]_vars

NextCrash ==
    \/ NextSweep
    \/ \E w \in Workers : worker_dies(w)

SpecCrash == InitCrash /\ [][NextCrash]_vars

\* --------------------------- a worker process that died beside one that stays up
\* w1 popped job 1, marked it PROCESSING, incremented the counter and was killed
\* (worker_dies); w2 is up, the other jobs are still queued
InitReap ==
    /\ now = 0
    /\ sub = PipelineSubs
    /\ \E n \in 1..MaxRun :
           /\ job = [QueuedRows(n) EXCEPT ![1].status = "PROCESSING", ![1].started_at = Some(0)]
           /\ queue = LPOP(QueuedIds(n)).rest
           /\ nextId = n + 1
    /\ store = INCR(EmptyTable, ConcurrentKey("u1"))
    /\ before = 0
    /\ client = PipelineClient
    /\ reply = NoReply
    /\ pc = [w \in Workers |-> IF w = "w1" THEN "dead" ELSE "loop"]
    /\ held = [w \in Workers |-> IF w = "w1" THEN Some(1) ELSE None]
    /\ wuser = [w \in Workers |-> IF w = "w1" THEN Some("u1") ELSE None]
    /\ rpc = [w \in Workers |-> IF w = "w1" THEN "dead" ELSE "sleep"]
    /\ stale_jobs = [w \in Workers |-> {}]
    /\ todo = [w \in Workers |-> {}]
    /\ req = [h \in Handlers |-> IdleRequest]
    /\ poll = None
    /\ shutdown_flag = [w \in Workers |-> FALSE]

\* the statements of r's check_stale_jobs coroutine
ReaperStep(r) ==
    \/ check_stale_jobs_query(r)
    \/ check_stale_jobs_requeue(r)

\* the event loop of w2 keeps running both coroutines of asyncio.gather in main
SpecReap ==
    InitReap /\ [][NextSweep]_vars /\ WF_vars(WorkerStep("w2")) /\ WF_vars(ReaperStep("w2"))

\* ------------------------------------------------ a worker process shutting down
\* signal_handler: SIGINT or SIGTERM reaches the running worker process w
signal_handler(w) ==
    /\ pc[w] \notin {"stopped", "dead"}
    /\ shutdown_flag' = [shutdown_flag EXCEPT ![w] = TRUE]
    /\ UNCHANGED <<now, sub, job, nextId, queue, store, reply, pc, held, wuser, rpc, stale_jobs,
                 todo, client, before, req, poll>>

\* worker_loop: the test of while not shutdown_flag fails, "Worker shutting down..."
worker_loop_exits(w) ==
    /\ pc[w] = "loop"
    /\ shutdown_flag[w]
    /\ pc' = [pc EXCEPT ![w] = "stopped"]
    /\ UNCHANGED <<now, sub, job, nextId, queue, store, reply, held, wuser, rpc, stale_jobs,
                 todo, client, before, req, poll, shutdown_flag>>

\* check_stale_jobs: asyncio.sleep(60) is over and the test of while not
\* shutdown_flag fails
check_stale_jobs_exits(r) ==
    /\ rpc[r] = "sleep"
    /\ shutdown_flag[r]
    /\ rpc' = [rpc EXCEPT ![r] = "stopped"]
    /\ UNCHANGED <<now, sub, job, nextId, queue, store, reply, pc, held, wuser, stale_jobs,
                 todo, client, before, req, poll, shutdown_flag>>

\* one worker process with queued jobs: w2 was never started
InitShutdown ==
    /\ now = 0
    /\ sub = PipelineSubs
    /\ \E n \in 1..MaxRun :
           /\ job = QueuedRows(n)
           /\ queue = QueuedIds(n)
           /\ nextId = n + 1
    /\ store = EmptyTable
    /\ before = 0
    /\ client = PipelineClient
    /\ reply = NoReply
    /\ pc = [w \in Workers |-> IF w = "w1" THEN "loop" ELSE "stopped"]
    /\ held = [w \in Workers |-> None]
    /\ wuser = [w \in Workers |-> None]
    /\ rpc = [w \in Workers |-> IF w = "w1" THEN "sleep" ELSE "stopped"]
    /\ stale_jobs = [w \in Workers |-> {}]
    /\ todo = [w \in Workers |-> {}]
    /\ req = [h \in Handlers |-> IdleRequest]
    /\ poll = None
    /\ shutdown_flag = [w \in Workers |-> FALSE]

NextShutdown ==
    \/ NextSweep
    \/ \E w \in Workers : signal_handler(w)
    \/ \E w \in Workers : worker_loop_exits(w)
    \/ \E r \in Workers : check_stale_jobs_exits(r)

\* the event loop keeps running both coroutines of asyncio.gather in main until
\* they return; the signal and the clock come as they may
SpecShutdown ==
    /\ InitShutdown
    /\ [][NextShutdown]_vars
    /\ \A w \in Workers : WF_vars(WorkerStep(w) \/ worker_loop_exits(w))
    /\ \A r \in Workers : WF_vars(ReaperStep(r) \/ check_stale_jobs_exits(r))

\* ------------------------- the worker loop when Redis or the database is unreachable
\* worker_loop: redis.lpop raises; except Exception at line 270 logs it and the loop
\* sleeps 5 seconds
worker_loop_lpop_raises(w) ==
    /\ pc[w] = "loop"
    /\ ~shutdown_flag[w]
    /\ pc' = [pc EXCEPT ![w] = "backoff"]
    /\ UNCHANGED <<now, sub, job, nextId, queue, store, reply, held, wuser, rpc, stale_jobs,
                 todo, client, before, req, poll, shutdown_flag>>

\* worker_loop: await asyncio.sleep(5) is over, finally db.close(), next iteration
worker_loop_backoff_over(w) ==
    /\ pc[w] = "backoff"
    /\ pc' = [pc EXCEPT ![w] = "loop"]
    /\ UNCHANGED <<now, sub, job, nextId, queue, store, reply, held, wuser, rpc, stale_jobs,
                 todo, client, before, req, poll, shutdown_flag>>

\* process_job: a query or the commit of PROCESSING raises (lines 56-72, outside the
\* inner try): nothing is committed and control is in except Exception at line 205
process_job_start_raises(w) ==
    /\ pc[w] = "process_job"
    /\ pc' = [pc EXCEPT ![w] = "process_job_except"]
    /\ UNCHANGED <<now, sub, job, nextId, queue, store, reply, held, wuser, rpc, stale_jobs,
                 todo, client, before, req, poll, shutdown_flag>>

\* process_job: increment_concurrent raises (line 75, outside the inner try): the
\* job stays PROCESSING
increment_concurrent_raises(w) ==
    /\ pc[w] = "increment_concurrent"
    /\ pc' = [pc EXCEPT ![w] = "process_job_except"]
    /\ UNCHANGED <<now, sub, job, nextId, queue, store, reply, held, wuser, rpc, stale_jobs,
                 todo, client, before, req, poll, shutdown_flag>>

\* process_job: the run raises and db.commit() in the except handler (line 186)
\* raises in turn: FAILED is not committed and the exception leaves the handler
\* through the finally block
process_job_try_commit_raises(w) ==
    /\ pc[w] = "try"
    /\ ~CallBinds(ProcessJobKeywords, CreateJobParams) \/ client.raises
    /\ pc' = [pc EXCEPT ![w] = "finally_raising"]
    /\ UNCHANGED <<now, sub, job, nextId, queue, store, reply, held, wuser, rpc, stale_jobs,
                 todo, client, before, req, poll, shutdown_flag>>

\* process_job, finally, with an exception on its way out: decrement_concurrent,
\* then except Exception at line 205
decrement_concurrent_raising(w) ==
    /\ pc[w] = "finally_raising"
    /\ store' = decrement_concurrent_store(store, The(wuser[w]))
    /\ pc' = [pc EXCEPT ![w] = "process_job_except"]
    /\ UNCHANGED <<now, sub, job, nextId, queue, reply, held, wuser, rpc, stale_jobs, todo,
                 client, before, req, poll, shutdown_flag>>

\* process_job, finally: decrement_concurrent itself raises (Redis unreachable)
decrement_concurrent_raises(w) ==
    /\ pc[w] \in {"finally", "finally_raising"}
    /\ pc' = [pc EXCEPT ![w] = "process_job_except"]
    /\ UNCHANGED <<now, sub, job, nextId, queue, store, reply, held, wuser, rpc, stale_jobs,
                 todo, client, before, req, poll, shutdown_flag>>

\* process_job: except Exception at line 205 has logged the error and process_job
\* returns; worker_loop goes to its next iteration
process_job_except_returns(w) ==
    /\ pc[w] = "process_job_except"
    /\ pc' = [pc EXCEPT ![w] = "loop"]
    /\ held' = [held EXCEPT ![w] = None]
    /\ wuser' = [wuser EXCEPT ![w] = None]
    /\ UNCHANGED <<now, sub, job, nextId, queue, store, reply, rpc, stale_jobs, todo, client,
                 before, req, poll, shutdown_flag>>

NextFault ==
    \/ NextRun
    \/ \E w \in Workers : worker_loop_lpop_raises(w)
    \/ \E w \in Workers : worker_loop_backoff_over(w)
    \/ \E w \in Workers : process_job_start_raises(w)
    \/ \E w \in Workers : increment_concurrent_raises(w)
    \/ \E w \in Workers : process_job_try_commit_raises(w)
    \/ \E w \in Workers : decrement_concurrent_raising(w)
    \/ \E w \in Workers : decrement_concurrent_raises(w)
    \/ \E w \in Workers : process_job_except_returns(w)

\* queued jobs and the workers, any call on Redis or the database failing
SpecFault == InitCrash /\ [][NextFault]_vars

\* ------------------------------------------- poll_until_complete, call by call
InitPoll ==
    /\ InitIdle
    /\ before = 0
    /\ req = [h \in Handlers |-> IdleRequest]
    /\ poll = None
    /\ shutdown_flag = [w \in Workers |-> FALSE]
    /\ sub = PipelineSubs
    /\ store = EmptyTable
    /\ client \in Outcomes

\* result = await nano_banana_client.poll_until_complete(job.nano_banana_job_id,
\*                                                      max_wait_seconds=300)
poll_until_complete_call ==
    /\ poll = None
    /\ \E waited \in PollWaits(client) :
           poll' = Some(poll_until_complete(client, MAX_WAIT_SECONDS, waited))
    /\ UNCHANGED <<now, sub, job, nextId, queue, store, reply, pc, held, wuser, rpc, stale_jobs,
                 todo, client, before, req, shutdown_flag>>

NextPoll == poll_until_complete_call

SpecPoll == InitPoll /\ [][NextPoll]_vars

\* ------------------- the pipeline with deletions of jobs and of accounts
NextDelete ==
    \/ \E u \in DOMAIN sub : create_job(u, MaxJobs)
    \/ \E u \in DOMAIN sub, id \in 1..MaxJobs : delete_job(u, id)
    \/ \E u \in Users : delete_account(u)
    \/ \E w \in Workers : worker_loop_lpop(w)
    \/ \E w \in Workers : worker_loop_wake(w)
    \/ \E w \in Workers : process_job_query_job(w)
    \/ \E w \in Workers : process_job_query_user(w)
    \/ \E w \in Workers : process_job_commit(w)
    \/ \E w \in Workers : increment_concurrent(w)
    \/ \E w \in Workers : process_job_try(w)
    \/ \E w \in Workers : decrement_concurrent(w)

\* requests, deletions and the workers, process_job taking its database statements
\* one at a time
SpecDelete == Init /\ [][NextDelete]_vars

\* ================================================================ claims
InQueue(q, id) == \E i \in 1..Len(q) : q[i] = id

C2_ErrorIffFailed ==
    \A id \in DOMAIN job : (job[id].error_message # None) <=> (job[id].status = "FAILED")

Rank(st) ==
    IF st = "PENDING" THEN 0
    ELSE IF st = "QUEUED" THEN 1
    ELSE IF st = "PROCESSING" THEN 2
    ELSE 3

\* C3: every status change is a forward step along PENDING -> QUEUED -> PROCESSING ->
\* {COMPLETED, FAILED, CANCELLED}, or the reaper's PROCESSING -> QUEUED; a job that is
\* COMPLETED, FAILED or CANCELLED never changes status again.
C3_ForwardOnly ==
    [][\A id \in DOMAIN job :
          job'[id].status # job[id].status =>
              \/ Rank(job[id].status) < Rank(job'[id].status)
              \/ job[id].status = "PROCESSING" /\ job'[id].status = "QUEUED"]_vars

\* the limits of a plan as the configuration states them
PlanMaxJobs(plan) ==
    IF plan = "FREE" THEN FREE_JOBS_PER_DAY
    ELSE IF plan \in {"BASIC_MONTHLY", "BASIC_YEARLY"} THEN PERSONAL_JOBS_PER_MONTH
    ELSE PRO_JOBS_PER_MONTH
PlanMaxConcurrent(plan) ==
    IF plan = "FREE" THEN FREE_CONCURRENT_JOBS
    ELSE IF plan \in {"BASIC_MONTHLY", "BASIC_YEARLY"} THEN PERSONAL_CONCURRENT_JOBS
    ELSE PRO_CONCURRENT_JOBS
\* the counters as stored: an absent key counts as 0
Usage(u, plan) ==
    LET k == IF plan = "FREE" THEN <<"usage_total", u>> ELSE <<"usage", u, "Y-m">>
    IN  IF k \in DOMAIN store THEN store[k].val ELSE 0
Concurrent(u) ==
    IF <<"concurrent", u>> \in DOMAIN store THEN store[<<"concurrent", u>>].val ELSE 0

\* C4: check_job_limit denies whenever the usage counter of the plan's period is at
\* or above the plan's max-jobs, and allows when the usage counter is one below
\* max-jobs and the concurrency counter is below max-concurrent.
C4_UsageLimit ==
    \A u \in Users, plan \in SubscriptionPlan :
        LET res == check_job_limit(store, u, plan)
        IN  /\ Usage(u, plan) >= PlanMaxJobs(plan) => ~res.allowed
            /\ (Usage(u, plan) = PlanMaxJobs(plan) - 1 /\ Concurrent(u) < PlanMaxConcurrent(plan))
                   => res.allowed

\* C4 witness: a paid-plan user one below max-jobs was admitted by create_job, and
\* the free-plan probe of the same store is at its limit
C4_Witness ==
    /\ reply.code = 200
    /\ reply.user = "u1"
    /\ sub["u1"] = Some([plan |-> "BASIC_MONTHLY", status |-> "ACTIVE"])
    /\ Usage("u1", "BASIC_MONTHLY") = PERSONAL_JOBS_PER_MONTH
    /\ Usage("u1", "FREE") = FREE_JOBS_PER_DAY

\* C5: check_job_limit denies a user whose concurrency counter is at or above the
\* plan's max-concurrent even when the usage counter is below max-jobs.
C5_ConcurrentLimit ==
    \A u \in Users, plan \in SubscriptionPlan :
        LET res == check_job_limit(store, u, plan)
        IN  (Concurrent(u) >= PlanMaxConcurrent(plan) /\ Usage(u, plan) < PlanMaxJobs(plan))
                => /\ ~res.allowed
                   /\ res.reason[1] = "Concurrent job limit exceeded"

\* C5 witness: create_job answered 429 with the concurrency reason to a user exactly
\* at max-concurrent with usage headroom
C5_Witness ==
    /\ reply.code = 429
    /\ reply.user = "u1"
    /\ reply.detail = <<"Concurrent job limit exceeded", PRO_CONCURRENT_JOBS>>
    /\ Concurrent("u1") = PRO_CONCURRENT_JOBS
    /\ Usage("u1", "PRO_MONTHLY") = 0

\* C6: after any sequence of completed increment_concurrent and decrement_concurrent
\* calls, starting from an absent counter and including decrements with no prior
\* increment, the stored concurrency counter is >= 0.
C6_NeverNegative ==
    (\A w \in Workers : pc[w] # "clamp") => \A u \in Users : Concurrent(u) >= 0

\* C6 witness: every call has completed, and a decrement with no prior increment has
\* left u1's counter stored at 0 while u2's counter is positive
C6_Witness ==
    /\ \A w \in Workers : pc[w] # "clamp"
    /\ <<"concurrent", "u1">> \in DOMAIN store
    /\ Concurrent("u1") = 0
    /\ Concurrent("u2") > 0

\* the rows a query of check_stale_jobs must return at time t
IsStale(row, t) ==
    /\ row.status = "PROCESSING"
    /\ row.started_at # None
    /\ \A st \in row.started_at : st + STALE_MINUTES < t

SweepQueries(r) == rpc[r] = "sleep" /\ rpc'[r] = "requeue"
SweepRequeues(r) == rpc[r] = "requeue" /\ todo'[r] # todo[r]
SweepEnds(r) == rpc[r] = "requeue" /\ rpc'[r] = "sleep"

C9_Fifo ==
    [][/\ \/ queue' = queue
          \/ \E id \in DOMAIN job' : queue' = Append(queue, id)
          \/ /\ queue # <<>>
             /\ queue' = Tail(queue)
             /\ \E w \in Workers :
                    /\ pc[w] = "loop"
                    /\ pc'[w] = "process_job"
                    /\ held'[w] = Some(Head(queue))
       /\ \A w \in Workers :
              /\ (pc[w] = "loop" /\ pc'[w] = "sleep") =>
                     queue = <<>> /\ queue' = <<>> /\ held'[w] = None
              /\ (pc[w] = "loop" /\ pc'[w] = "process_job") =>
                     queue # <<>> /\ held'[w] = Some(Head(queue)) /\ queue' = Tail(queue)]_vars

\* C9 witness: job 1 was pushed before job 2; one worker holds job 1, popped first,
\* job 2 is what is left, and the other worker popped the empty queue before
C9_Witness ==
    /\ queue = <<2>>
    /\ \E w \in Workers : pc[w] = "process_job" /\ held[w] = Some(1)
    /\ \E w \in Workers : pc[w] = "sleep"

UserRows(u) == {id \in DOMAIN job : job[id].user = u}
FreeUsers == {u \in Users : sub[u] # None /\ \A x \in sub[u] : x.plan = "FREE" \/ x.status # "ACTIVE"}

\* C10: for a free-plan user starting with usage 0 and plan limit N, with none of
\* the user's jobs being processed, sequential create_job requests behave so: a
\* request made at usage k < N is accepted and raises the usage counter to k + 1, so
\* each of the first N is accepted; the request made at usage N, the (N+1)-th, is
\* denied with the usage-limit reason and leaves the counter at N.
C10_FreeQuota ==
    [][\A u \in FreeUsers :
          /\ Usage(u, "FREE") = Cardinality(UserRows(u))
          /\ (reply'.user = u /\ (reply' # reply \/ job' # job)) =>
                 IF Usage(u, "FREE") < FREE_JOBS_PER_DAY
                 THEN /\ reply'.code = 200
                      /\ Usage(u, "FREE")' = Usage(u, "FREE") + 1
                      /\ Cardinality(UserRows(u)') = Cardinality(UserRows(u)) + 1
                 ELSE /\ reply'.code = 429
                      /\ reply'.detail = <<"Usage limit exceeded", FREE_JOBS_PER_DAY, "total">>
                      /\ Usage(u, "FREE")' = FREE_JOBS_PER_DAY
                      /\ job' = job]_vars

\* C10 witness: a free-plan user has had N requests accepted, the usage counter is N
\* and the next request was answered 429 with the usage-limit reason
C10_Witness ==
    \E u \in FreeUsers :
        /\ Cardinality(UserRows(u)) = FREE_JOBS_PER_DAY
        /\ Usage(u, "FREE") = FREE_JOBS_PER_DAY
        /\ reply = Reply(u, 429, <<"Usage limit exceeded", FREE_JOBS_PER_DAY, "total">>, None)

\* every queued job has been popped and every process_job call has returned
RunsOver == queue = <<>> /\ \A w \in Workers : pc[w] \in {"loop", "sleep"}

\* C11: when the client is in mock mode and its one generated image stores, every job
\* a worker popped ends COMPLETED with exactly one entry in result_urls and
\* thumbnail_url set, and the user's concurrency counter is back at its value
\* before the jobs were popped.
C11_MockCompletes ==
    (RunsOver /\ client.mode = "mock" /\ client.polled = "ok" /\ client.thumb = "stored")
        => /\ \A id \in DOMAIN job :
                  /\ job[id].status = "COMPLETED"
                  /\ Len(job[id].result_urls) = 1
                  /\ job[id].thumbnail_url # None
           /\ Concurrent("u1") = before

\* the call of the generation client raises: the call itself, or the live backend
ClientRaises ==
    \/ ~CallBinds(ProcessJobKeywords, CreateJobParams)
    \/ client.mode = "live" /\ client.raises

\* C12: when the generation client raises during process_job, the job ends FAILED
\* with error_message and completed_at set, and the user's concurrency counter is
\* back at its value before the jobs were popped.
C12_FailureReleases ==
    (RunsOver /\ ClientRaises)
        => /\ \A id \in DOMAIN job :
                  /\ job[id].status = "FAILED"
                  /\ job[id].error_message # None
                  /\ job[id].completed_at # None
           /\ Concurrent("u1") = before

\* C12 witness: two runs against a raising live backend are over, both jobs are
\* FAILED and the counter, which started at 1, is 1
C12_Witness ==
    /\ RunsOver
    /\ client.mode = "live" /\ client.raises
    /\ DOMAIN job = {1, 2}
    /\ \A id \in DOMAIN job : job[id].status = "FAILED" /\ job[id].error_message # None
    /\ before = 1
    /\ Concurrent("u1") = 1

C14_PopHandsOverOnce ==
    [][/\ \A w \in Workers :
              (held'[w] # held[w] /\ held'[w] # None) =>
                  /\ queue # <<>>
                  /\ held'[w] = Some(Head(queue))
                  /\ queue' = Tail(queue)
                  /\ \A v \in Workers \ {w} : held'[v] = held[v]
       /\ Len(queue') > Len(queue) =>
              /\ held' = held
              /\ \E id \in DOMAIN job' :
                     /\ queue' = Append(queue, id)
                     /\ \/ id \notin DOMAIN job
                        \/ \E r \in Workers :
                               rpc[r] = "requeue" /\ id \in todo[r] /\ id \notin todo'[r]]_vars

\* C14 witness: two workers hold the same job, which a sweep re-enqueued while the
\* first of them was still at work on it
C14_Witness ==
    \E id \in DOMAIN job :
        /\ \A w \in Workers : held[w] = Some(id)
        /\ \E r \in Workers : id \in stale_jobs[r] /\ id \notin todo[r]

\* C15: a create_job request that check_job_limit denies (answered 429) creates no
\* Job record, pushes no id and leaves the usage counter, like every key of the
\* store, unchanged.
C15_DenialChangesNothing ==
    [][reply'.code = 429 =>
          /\ job' = job
          /\ nextId' = nextId
          /\ queue' = queue
          /\ store' = store]_vars

\* C15 witness: the request after an accepted one was denied for the usage limit;
\* the one row and the one queue entry are those of the accepted request
C15_Witness ==
    /\ reply.code = 429
    /\ reply.detail[1] = "Usage limit exceeded"
    /\ DOMAIN job = {1}
    /\ queue = <<1>>
    /\ Usage("u1", "FREE") = FREE_JOBS_PER_DAY

C17_UsageReasonFirst ==
    \A u \in Users, plan \in SubscriptionPlan :
        (Usage(u, plan) >= PlanMaxJobs(plan) /\ Concurrent(u) >= PlanMaxConcurrent(plan))
            => LET res == check_job_limit(store, u, plan)
               IN  /\ ~res.allowed
                   /\ res.reason[1] = "Usage limit exceeded"
                   /\ res.reason[2] = PlanMaxJobs(plan)

\* C17 witness: create_job answered a PRO user who is over both limits with the
\* usage-limit reason
C17_Witness ==
    /\ reply = Reply("u1", 429, <<"Usage limit exceeded", PRO_JOBS_PER_MONTH, "per month">>, None)
    /\ Usage("u1", "PRO_MONTHLY") > PRO_JOBS_PER_MONTH
    /\ Concurrent("u1") > PRO_CONCURRENT_JOBS

\* the plan whose limits and counter a subscription row must be held to
LimitPlan(x) == IF x.status = "ACTIVE" THEN x.plan ELSE "FREE"

\* C18: create_job admits a request exactly when the usage and concurrency counters
\* are below the limits of the FREE plan if the subscription is not ACTIVE, of the
\* subscription's own plan if it is ACTIVE, and an admitted request raises that
\* plan's usage counter by one and no other counter.
C18_InactiveIsFree ==
    [][\A u \in Users : \A x \in sub[u] :
          reply'.user = u =>
              LET plan == LimitPlan(x)
                  other == IF plan = "FREE" THEN "PRO_MONTHLY" ELSE "FREE"
              IN  /\ reply'.code = 200 <=>
                         /\ Usage(u, plan) < PlanMaxJobs(plan)
                         /\ Concurrent(u) < PlanMaxConcurrent(plan)
                  /\ reply'.code = 200 =>
                         /\ Usage(u, plan)' = Usage(u, plan) + 1
                         /\ Usage(u, other)' = Usage(u, other)
                  /\ reply'.code # 200 =>
                         /\ reply'.code = 429
                         /\ reply'.detail[2] \in {PlanMaxJobs(plan), PlanMaxConcurrent(plan)}]_vars

\* C18 witness: a user whose PRO subscription is CANCELLED and whose month counter
\* is over the PRO limit was admitted under the FREE limit, and the FREE counter
\* is now at its limit
C18_Witness ==
    /\ sub["u1"] = Some([plan |-> "PRO_YEARLY", status |-> "CANCELLED"])
    /\ reply.code = 200
    /\ reply.user = "u1"
    /\ Usage("u1", "FREE") = FREE_JOBS_PER_DAY
    /\ Usage("u1", "PRO_YEARLY") > PRO_JOBS_PER_MONTH

\* C19: a user's usage counter is greater than or equal to the number of the user's
\* create_job requests that check_job_limit has approved (stated for the states in
\* which no request is in progress).
C19_UsageCoversApproved ==
    (\A h \in Handlers : req[h].pc = "idle")
        => Usage("u1", "FREE") >= ApprovedBy(Handlers)

UsageKeys == {k \in DOMAIN store : k[1] \in {"usage_total", "usage"}}

\* C20: no step of the pipeline (requests, deletions, failing runs, sweeps) lowers
\* or removes a usage counter, the free plan's counter never gets an expiry, and a
\* free-plan user whose counter has reached the limit stays at or above it: every
\* later create_job of that user is denied with the usage-limit reason.
C20_UsageNeverLowered ==
    [][/\ \A k \in UsageKeys :
              /\ k \in DOMAIN store'
              /\ store'[k].val >= store[k].val
              /\ k[1] = "usage_total" => store'[k].ttl = None
       /\ \A u \in FreeUsers :
              Usage(u, "FREE") >= FREE_JOBS_PER_DAY =>
                  /\ Usage(u, "FREE")' >= FREE_JOBS_PER_DAY
                  /\ ~check_job_limit(store', u, "FREE").allowed
                  /\ (reply' # reply /\ reply'.user = u) =>
                         reply' = Reply(u, 429, <<"Usage limit exceeded", FREE_JOBS_PER_DAY, "total">>,
                                        None)]_vars

\* C20 witness: the job that took the user to the limit has run, has been swept and
\* has been deleted, and the next request was denied for the usage limit
C20_Witness ==
    /\ nextId = 2
    /\ 1 \notin DOMAIN job
    /\ \E r \in Workers : stale_jobs[r] = {1}
    /\ Usage("u1", "FREE") = FREE_JOBS_PER_DAY
    /\ reply = Reply("u1", 429, <<"Usage limit exceeded", FREE_JOBS_PER_DAY, "total">>, None)

\* the statuses of a job that process_job has begun
Begun == {"PROCESSING", "COMPLETED", "FAILED", "CANCELLED"}

\* C21: in every reachable state, a job's started_at is set if and only if its status
\* is PROCESSING, COMPLETED, FAILED or CANCELLED; a QUEUED job has no started_at, also
\* after the reaper has reset it.
C21_StartedIffBegun ==
    \A id \in DOMAIN job : (job[id].started_at # None) <=> (job[id].status \in Begun)

\* C22: started_at and completed_at are each written at most once: a step never
\* replaces a timestamp that is set, also when the job is re-queued by the reaper
\* and processed again.
C22_TimestampsWrittenOnce ==
    [][\A id \in DOMAIN job :
          /\ job[id].started_at # None => job'[id].started_at = job[id].started_at
          /\ job[id].completed_at # None => job'[id].completed_at = job[id].completed_at]_vars

\* C24: an exception raised while processing one job does not stop the worker loop:
\* the job the worker holds in the try block (every call of the generation client
\* raises) is recorded FAILED, and the same worker goes on to pop the next queued id
\* and takes it into the try block.
C24_FailedThenNext ==
    \A id \in 1..(MaxRun - 1) :
        (held["w1"] = Some(id) /\ pc["w1"] = "try" /\ queue # <<>>)
            ~> (/\ id \in DOMAIN job
                /\ job[id].status = "FAILED"
                /\ job[id].error_message # None
                /\ held["w1"] = Some(id + 1)
                /\ pc["w1"] = "try")

\* C24 witness: the first job's run has raised and is recorded FAILED, and the worker
\* holds the second job in its try block
C24_Witness ==
    /\ job[1].status = "FAILED"
    /\ job[1].error_message # None
    /\ held["w1"] = Some(2)
    /\ pc["w1"] = "try"

\* process_job finds no Job row for the popped id, or no User row for the job's owner
NoJobRecord(w) == pc[w] = "process_job" /\ The(held[w]) \notin DOMAIN job
NoUserRecord(w) == pc[w] = "query_user" /\ The(wuser[w]) \notin DOMAIN sub

\* C25: when the popped id has no Job record (deleted while queued) or the job's
\* owning User record is missing, process_job returns: the step changes no job
\* record and no ledger counter and pushes nothing on the queue.
C25_MissingRecordNoOp ==
    [][\A w \in Workers :
          (NoJobRecord(w) \/ NoUserRecord(w)) /\ pc'[w] # pc[w] =>
              /\ pc'[w] = "loop"
              /\ job' = job
              /\ store' = store
              /\ queue' = queue]_vars

\* C25 witness: job 1 was deleted while queued, its id was popped and process_job
\* has returned: the worker is back in its loop, nothing is queued and no counter of
\* the owner, whose account is still there, was ever written
C25_Witness ==
    /\ nextId = 2
    /\ 1 \notin DOMAIN job
    /\ "u1" \in DOMAIN sub
    /\ queue = <<>>
    /\ \A w \in Workers : pc[w] \in {"loop", "sleep"} /\ held[w] = None
    /\ ConcurrentKey("u1") \notin DOMAIN store

\* C26: the polling fallback never waits beyond its maximum total wait: a call of
\* poll_until_complete either returns a completed result that carries the generated
\* images, or raises a timeout error once max_wait_seconds has passed.
C26_PollReturnsImagesOrTimesOut ==
    \A r \in poll :
        /\ r.waited <= MAX_WAIT_SECONDS
        /\ \/ /\ r.kind = "return"
              /\ r.value.status = "completed"
              /\ "generated_images" \in DOMAIN r.value
              /\ r.value.generated_images # <<>>
           \/ /\ r.kind = "raise"
              /\ r.waited >= MAX_WAIT_SECONDS

\* the backend answers with images of which some, but not all, fail to decode or to
\* store, and nothing else in the run raises
PartlyStored ==
    /\ client.mode = "live"
    /\ ~client.raises
    /\ client.thumb # "raises"
    /\ \E i, j \in DOMAIN client.images : client.images[i] = "ok" /\ client.images[j] = "bad"

\* C27: when some but not all generated results fail to decode or store, the job still
\* ends COMPLETED and result_urls holds exactly the locators of the results that were
\* stored, in the order the results were generated.
C27_PartialStoreCompletes ==
    RunsOver /\ PartlyStored =>
        \A id \in DOMAIN job :
            LET urls == job[id].result_urls
            IN  /\ job[id].status = "COMPLETED"
                /\ {urls[k] : k \in DOMAIN urls} = Indices(client.images)
                /\ \A k \in 1..(Len(urls) - 1) : urls[k] < urls[k + 1]

\* the runs of process_job for a user's jobs that are between increment_concurrent
\* and decrement_concurrent, and those of them whose process has died
Running(u) == {w \in Workers : pc[w] \in {"try", "finally"} /\ wuser[w] = Some(u)}
Leaked(u) == {w \in Workers : pc[w] = "dead" /\ wuser[w] = Some(u)}

\* C28: check_stale_jobs never changes a concurrency counter, and a worker that dies
\* between increment_concurrent and decrement_concurrent leaves the user's counter one
\* too high for ever: in every state the counter is the number of runs in progress
\* plus the number of runs whose worker died, whatever the reaper re-queued and
\* whatever another worker has processed since.
C28_CounterKeepsDeadRuns ==
    \A u \in Users : Concurrent(u) = Cardinality(Running(u)) + Cardinality(Leaked(u))

\* C28 witness: a worker died holding a job, the reaper re-queued the job, the other
\* worker processed it again to FAILED and is idle, and the counter is still 1
C28_Witness ==
    \E w \in Workers, id \in DOMAIN job :
        /\ pc[w] = "dead"
        /\ held[w] = Some(id)
        /\ \E r \in Workers : id \in stale_jobs[r]
        /\ job[id].status = "FAILED"
        /\ job[id].started_at = Some(MaxTicks * STALE_MINUTES)
        /\ \A v \in Workers \ {w} : pc[v] \in {"loop", "sleep"}
        /\ queue = <<>>
        /\ Concurrent("u1") = 1

\* worker w has marked job id PROCESSING and its run has not yet committed a result
StillRunning(w, id) == held[w] = Some(id) /\ pc[w] \in {"increment_concurrent", "try"}

\* C29: while a worker is still processing a job whose started_at has become older
\* than the staleness threshold, a sweep's query takes the job for re-queueing; a
\* second worker that has popped the id takes the job (PROCESSING again) although
\* the first is still running, and commits its result on the same record.
C29_SlowWorkerRaced ==
    [][\A id \in DOMAIN job, w \in Workers :
          StillRunning(w, id) =>
              /\ \A r \in Workers :
                     SweepQueries(r) /\ IsStale(job[id], now) => id \in todo'[r]
              /\ \A v \in Workers \ {w} :
                     /\ pc[v] = "process_job" /\ held[v] = Some(id) /\ pc'[v] # pc[v] =>
                            /\ pc'[v] = "increment_concurrent"
                            /\ job'[id].status = "PROCESSING"
                            /\ job'[id].started_at = Some(now)
                     /\ pc[v] = "try" /\ held[v] = Some(id) /\ pc'[v] # pc[v] =>
                            /\ job'[id].status \in {"COMPLETED", "FAILED"}
                            /\ job'[id].completed_at = Some(now)]_vars

\* C29 witness: the first worker is still in its run of a job that the reaper
\* re-queued, and a second worker has taken the job at the later time and committed
\* its result on the record
C29_Witness ==
    \E w \in Workers, id \in DOMAIN job :
        /\ StillRunning(w, id)
        /\ \E r \in Workers : id \in stale_jobs[r]
        /\ job[id].started_at = Some(MaxTicks * STALE_MINUTES)
        /\ job[id].status = "FAILED"
        /\ \E v \in Workers \ {w} : pc[v] = "finally" /\ held[v] = Some(id)

\* an error raised by Redis or the database reaches an except clause of worker w in
\* this step: the one of worker_loop (back-off) or the one of process_job
InfraErrorCaught(w) ==
    /\ pc[w] \notin {"backoff", "process_job_except"}
    /\ pc'[w] \in {"backoff", "process_job_except"}

\* C30: an infrastructure error (queue or database unreachable) raised in a
\* worker-loop iteration is not turned into a FAILED job: it leaves every job's
\* status as it was, and it is caught by the worker loop, which backs off before
\* its next iteration.
C30_InfraErrorBacksOff ==
    [][\A w \in Workers :
          InfraErrorCaught(w) =>
              /\ \A id \in DOMAIN job : job'[id].status = job[id].status
              /\ pc'[w] = "backoff"]_vars

\* the user's jobs that are PROCESSING
Processing(u) == {id \in UserRows(u) : job[id].status = "PROCESSING"}

\* C31: at no time are more of one user's jobs PROCESSING than the user's plan allows
\* to run concurrently, also when several worker processes pop the user's queued jobs
\* at the same time (stated for the users on the free plan).
C31_ProcessingWithinPlan ==
    \A u \in FreeUsers : Cardinality(Processing(u)) <= PlanMaxConcurrent("FREE")

\* the user's jobs that create_job has accepted: committed and pushed on the queue
\* (no worker runs here), or processed before
Accepted(u) == {id \in UserRows(u) : job[id].status # "QUEUED" \/ InQueue(queue, id)}

\* C32: when several create_job requests of one user run concurrently, each doing
\* check_job_limit, then the commit of the job, then increment_usage, the number of
\* jobs accepted for the user in the period never exceeds the plan's max-jobs (stated
\* for the users on the free plan).
C32_AcceptedWithinMaxJobs ==
    \A u \in FreeUsers : Cardinality(Accepted(u)) <= PlanMaxJobs("FREE")

\* C33: under fair scheduling of the live workers, and with every generation call
\* returning or raising, every job accepted by create_job eventually reaches
\* COMPLETED or FAILED.
C33_AcceptedEndsTerminal ==
    \A id \in 1..MaxJobs :
        (id \in DOMAIN job)
            ~> (id \in DOMAIN job /\ job[id].status \in {"COMPLETED", "FAILED"})

\* C33 witness: every request the run allows was accepted, every job has been
\* processed to its end and nothing is queued or running
C33_Witness ==
    /\ DOMAIN job = 1..MaxJobs
    /\ \A id \in DOMAIN job : job[id].status \in {"COMPLETED", "FAILED"}
    /\ queue = <<>>
    /\ pc["w1"] = "loop"

\* id is in PROCESSING, held by a worker that died, and older than the threshold
Orphaned(id) ==
    /\ id \in DOMAIN job
    /\ IsStale(job[id], now)
    /\ \E w \in Workers : pc[w] = "dead" /\ held[w] = Some(id)

Reenqueued(id) == id \in DOMAIN job /\ job[id].status = "QUEUED" /\ InQueue(queue, id)

\* C34: a job left in PROCESSING by a worker that died is, once its started_at is
\* older than the staleness threshold and the reaper of a live worker keeps running,
\* eventually reset to QUEUED with its id back in the queue, and from there the live
\* worker eventually takes it to COMPLETED or FAILED.
C34_OrphanRequeuedThenEnds ==
    \A id \in 1..MaxRun :
        /\ Orphaned(id) ~> Reenqueued(id)
        /\ Reenqueued(id)
               ~> (id \in DOMAIN job /\ job[id].status \in {"COMPLETED", "FAILED"})

\* C34 witness: the job of the dead worker has been re-queued by the sweep and
\* processed to its end by the live worker
C34_Witness ==
    \E id \in DOMAIN job :
        /\ pc["w1"] = "dead"
        /\ held["w1"] = Some(id)
        /\ id \in stale_jobs["w2"]
        /\ pc["w2"] = "loop"
        /\ job[id].status = "FAILED"
        /\ job[id].started_at = Some(MaxTicks * STALE_MINUTES)

\* a create_job request has committed the row of id and has not pushed the id yet
InRequest(id) ==
    \E h \in Handlers : req[h].id = Some(id) /\ req[h].pc \in {"increment_usage", "rpush"}

\* a worker has popped id and process_job has not loaded the row yet
JustPopped(id) == \E w \in Workers : held[w] = Some(id) /\ pc[w] = "process_job"

\* C35: every job with status QUEUED has its id in the queue, or is held by a worker
\* that has just popped it, or belongs to a create_job request that is about to push
\* it; no failure of a call between the commit of the status and the push, or after
\* the pop, leaves a QUEUED job that nothing will push or process.
C35_QueuedIsInQueue ==
    \A id \in DOMAIN job :
        job[id].status = "QUEUED" => InQueue(queue, id) \/ JustPopped(id) \/ InRequest(id)

\* how many entries of q are id
RECURSIVE Count(_, _)
Count(q, id) == IF q = <<>> THEN 0 ELSE (IF Head(q) = id THEN 1 ELSE 0) + Count(Tail(q), id)

\* C36: the job queue never holds the same job id twice at the same time, also when
\* the reapers of several worker processes sweep concurrently and find the same
\* stale job.
C36_NoIdTwiceInQueue ==
    \A id \in DOMAIN job : Count(queue, id) <= 1

\* C37: as long as no worker has crashed, a user's concurrency counter equals the
\* number of process_job runs for that user that are between increment_concurrent
\* and decrement_concurrent, and it is 0 whenever no worker is processing one of the
\* user's jobs, also when the reaper re-queues a job that a slow worker is still
\* processing.
C37_CounterIsRunsInProgress ==
    \A u \in Users :
        /\ Concurrent(u) = Cardinality(Running(u))
        /\ (Running(u) = {}) => (Concurrent(u) = 0)

\* C37 witness: the sweep has re-queued the job of a slow worker, a second worker
\* has taken it, and both runs are counted
C37_Witness ==
    \E id \in DOMAIN job, w \in Workers, v \in Workers :
        /\ w # v
        /\ held[w] = Some(id) /\ pc[w] = "try"
        /\ held[v] = Some(id) /\ pc[v] = "try"
        /\ \E r \in Workers : id \in stale_jobs[r]
        /\ Concurrent(job[id].user) = 2

\* caller w of decrement_concurrent issues its SET 0
ClampWrites(w) == pc[w] = "clamp" /\ pc'[w] = "loop"

\* C39: when decrement_concurrent and increment_concurrent calls of different
\* workers interleave on one user's counter, the SET 0 of a decrement never erases
\* an increment made by another worker after that decrement's DECR: the write never
\* lowers the counter.
C39_ClampErasesNoIncrement ==
    [][\A w \in Workers, u \in Users :
          ClampWrites(w) /\ wuser[w] = Some(u) => Concurrent(u)' >= Concurrent(u)]_vars

\* worker w takes an id off the queue
Pops(w) == pc[w] = "loop" /\ pc'[w] = "process_job"

\* worker w has popped id and its process_job has not yet come to the commit of
\* COMPLETED or FAILED
InProcessJob(w, id) ==
    held[w] = Some(id) /\ pc[w] \in {"process_job", "increment_concurrent", "try"}

\* C38: after a shutdown signal the worker pops no further id, the job it is
\* processing gets its terminal status, the worker loop and the reaper loop both
\* terminate, and once the workers have stopped no run is left in a concurrency
\* counter.
C38_ShutdownFinishesAndStops ==
    /\ [][\A w \in Workers : shutdown_flag[w] => ~Pops(w)]_vars
    /\ \A w \in Workers, id \in 1..MaxRun :
           (shutdown_flag[w] /\ InProcessJob(w, id))
               ~> (id \in DOMAIN job /\ job[id].status \in {"COMPLETED", "FAILED"})
    /\ \A w \in Workers : shutdown_flag[w] ~> (pc[w] = "stopped" /\ rpc[w] = "stopped")
    /\ []((\A w \in Workers : pc[w] = "stopped") => (\A u \in Users : Concurrent(u) = 0))

\* C38 witness: the signal came during a run; the run has ended FAILED, the loops
\* have stopped and an id is still in the queue
C38_Witness ==
    /\ shutdown_flag["w1"]
    /\ pc["w1"] = "stopped" /\ rpc["w1"] = "stopped"
    /\ queue # <<>>
    /\ \E id \in DOMAIN job : job[id].status = "FAILED" /\ ~InQueue(queue, id)
    /\ Concurrent("u1") = 0
====
